---- MODULE Spec2Model ----
(***************************************************************************)
(* Model of run_simulation (src/app.py, lines 55-198): the discrete-time   *)
(* greedy list scheduler of the website pipeline simulator.                *)
(*                                                                         *)
(* Time is counted in units of 1/60 day, so that the 0.5-day tick, the     *)
(* per-page efforts and the Go-Live effort divided by the size of the      *)
(* WordPress+UI pool are all exact integers.  float('inf') is the value    *)
(* Inf, above every finite time of a run.                                  *)
(***************************************************************************)
EXTENDS Integers, Sequences, FiniteSets, TLC

\* ---------------------------------------------------------------- bounds
MaxSites == 3
MaxPages == 2
MaxUnits == 2

\* ------------------------------------------------------------- constants
\* time_step = 0.5 day (line 93), in units of 1/60 day
time_step == 30
\* "if current_day > 1000" (line 96): 1000 days = 2000 ticks
SafetyBound == 2000 * time_step
\* float('inf') (lines 84, 112, 136)
Inf == 1000000000

Categories == {"Design", "Content", "WordPress", "UI"}

\* ---------------------------------------------------------------- inputs
\* efforts_dict (lines 203-209) with the sidebar's default values
\* (lines 37-43): 1.5, 1.5, 1.0, 2.0 days per page, 10.0 days of Go-Live
DefaultEfforts ==
    [design |-> 90, content |-> 90, wordpress |-> 60, ui |-> 120, go_live |-> 600]

\* efforts that are not multiples of the tick: 0.1, 0.7, 0.3, 1.1 days per
\* page, 2.0 days of Go-Live
UnalignedEfforts ==
    [design |-> 6, content |-> 42, wordpress |-> 18, ui |-> 66, go_live |-> 120]

\* a positive effort above the safety bound: 1000 days of UI work per page
LongEfforts ==
    [design |-> 90, content |-> 90, wordpress |-> 60, ui |-> 60000, go_live |-> 600]

RegularEfforts == {DefaultEfforts, UnalignedEfforts}

\* websites_info (lines 49-52): ids 0..n-1, each with its own page count
WebsiteInputs ==
    UNION { { [i \in 1..n |-> [id |-> i - 1, pages |-> pg[i]]] :
                pg \in [1..n -> 1..MaxPages] } : n \in 1..MaxSites }

\* resources (lines 28-33)
ResourceInputs == [Categories -> 0..MaxUnits]

\* every site of the plan has one page
OnePagePlan(w) == \A i \in 1..Len(w) : w[i].pages = 1

\* every category has the same number of units
UniformCounts(r) == \A c \in Categories : r[c] = r["Design"]

\* The inputs explored.  With positive resource counts and efforts below the
\* safety bound: every combination of counts with every plan of one-page
\* sites, and every plan with equal counts in the four categories.  For the
\* one-site one-page plan, moreover, the degenerate WordPress/UI counts and
\* the effort above the safety bound.
InputOK(r, w, e) ==
    \/ /\ \A c \in Categories : r[c] >= 1
       /\ e \in RegularEfforts
       /\ OnePagePlan(w) \/ UniformCounts(r)
    \/ /\ Len(w) = 1 /\ w[1].pages = 1
       /\ r["Design"] = 1 /\ r["Content"] = 1
       /\ \/ e = DefaultEfforts /\ (r["WordPress"] = 0 \/ r["UI"] = 0)
          \/ e = LongEfforts /\ r["WordPress"] = 1 /\ r["UI"] = 1

\* ------------------------------------------------------------ arithmetic
Max2(a, b) == IF a >= b THEN a ELSE b

\* float addition with inf
Add(a, b) == IF a = Inf \/ b = Inf THEN Inf ELSE a + b

\* the "{x:>5.1f}" format of the log lines: the day rounded to one decimal,
\* as a number of tenths of a day (every time of a run is an even number of
\* units, so no value lies halfway between two tenths)
Fmt1(x) == (x + 3) \div 6

EmptyMap == [x \in {} |-> 0]

Put(m, k, v) == [x \in (DOMAIN m) \cup {k} |-> IF x = k THEN v ELSE m[x]]

\* ---------------------------------------------------------- plan builder
TaskId(site, page, suffix) == <<site.id, page, suffix>>

NoDep == [kind |-> "none", ids |-> <<>>]

StrDep(id) == [kind |-> "str", ids |-> <<id>>]

ListDep(ids) == [kind |-> "list", ids |-> ids]

NewTask(id, site, page, type, effort, dep) ==
    [id |-> id, website_id |-> site.id, page |-> page, type |-> type,
     effort |-> effort, status |-> "pending", depends_on |-> dep,
     start_day |-> -1, end_day |-> -1]

\* lines 72-79: the four tasks of one page, chained
PageTasks(site, page, eff) ==
    << NewTask(TaskId(site, page, "Design"), site, page, "Design", eff.design, NoDep),
       NewTask(TaskId(site, page, "Content"), site, page, "Content", eff.content,
               StrDep(TaskId(site, page, "Design"))),
       NewTask(TaskId(site, page, "WP"), site, page, "WordPress", eff.wordpress,
               StrDep(TaskId(site, page, "Content"))),
       NewTask(TaskId(site, page, "UI"), site, page, "UI", eff.ui,
               StrDep(TaskId(site, page, "WP"))) >>

RECURSIVE SitePages(_, _, _)
SitePages(site, page, eff) ==
    IF page > site.pages THEN <<>>
    ELSE PageTasks(site, page, eff) \o SitePages(site, page + 1, eff)

RECURSIVE AllPages(_, _, _)
AllPages(w, i, eff) ==
    IF i > Len(w) THEN <<>>
    ELSE SitePages(w[i], 1, eff) \o AllPages(w, i + 1, eff)

\* line 82: the ids of the UI tasks of the site, in list order
RECURSIVE UiTasksForSite(_, _)
UiTasksForSite(ts, site) ==
    IF ts = <<>> THEN <<>>
    ELSE (IF Head(ts).website_id = site.id /\ Head(ts).type = "UI"
          THEN <<Head(ts).id>> ELSE <<>>) \o UiTasksForSite(Tail(ts), site)

\* lines 83-84
GoLiveEffortMut(r, eff) ==
    LET go_live_resources_count == r["WordPress"] + r["UI"]
    IN  IF go_live_resources_count > 0
        THEN eff.go_live \div go_live_resources_count
        ELSE eff.go_live

GoLiveEffortUndivided(r, eff) ==
    LET go_live_resources_count == r["WordPress"] + r["UI"]
    IN  IF go_live_resources_count > 0 THEN eff.go_live ELSE Inf

GoLiveEffort(r, eff) ==
    LET go_live_resources_count == r["WordPress"] + r["UI"]
    IN  IF go_live_resources_count > 0
        THEN eff.go_live \div go_live_resources_count
        ELSE Inf

\* line 85; the page 'N/A' of a Go-Live task is written 0
GoLiveTask(ts, site, r, eff) ==
    NewTask(TaskId(site, 0, "GoLive"), site, 0, "Go-Live", GoLiveEffort(r, eff),
            ListDep(UiTasksForSite(ts, site)))

\* lines 69-85
BuildTasks(r, w, eff) ==
    LET pages == AllPages(w, 1, eff)
    IN  pages \o [i \in 1..Len(w) |-> GoLiveTask(pages, w[i], r, eff)]

\* ------------------------------------------------------------------ sort
\* line 112: key (website_id, page if it is an int else inf)
PageKey(t) == IF t.type = "Go-Live" THEN Inf ELSE t.page

KeyLessDescending(a, b) ==
    \/ a.website_id > b.website_id
    \/ a.website_id = b.website_id /\ PageKey(a) < PageKey(b)

KeyLess(a, b) ==
    \/ a.website_id < b.website_id
    \/ a.website_id = b.website_id /\ PageKey(a) < PageKey(b)

\* insertion of t after every element whose key is not greater (stable),
\* searched from the end of the sorted part
RECURSIVE InsertSorted(_, _)
InsertSorted(s, t) ==
    IF s = <<>> THEN <<t>>
    ELSE IF ~ KeyLess(t, s[Len(s)]) THEN Append(s, t)
    ELSE Append(InsertSorted(SubSeq(s, 1, Len(s) - 1), t), s[Len(s)])

RECURSIVE SortTasks(_, _)
SortTasks(done, rest) ==
    IF rest = <<>> THEN done
    ELSE SortTasks(InsertSorted(done, Head(rest)), Tail(rest))


\* ----------------------------------------------------------------- state
VARIABLES
    resources,                   \* input: category -> number of units
    websites_info,               \* input: sequence of [id, pages]
    efforts,                     \* input: the effort table
    tasks,                       \* the task list (line 69)
    resource_free_on_day,        \* category -> sequence of free-at marks (line 62)
    completed_tasks,             \* task id -> end_day (line 87)
    active_websites,             \* line 88
    website_start_times,         \* line 89
    website_end_times,           \* line 90
    website_actual_start_logged, \* line 91
    current_day,                 \* line 92
    log_messages,                \* line 59
    pc,                          \* position in run_simulation
    scan_pos,                    \* position of the binding loop (line 114) in tasks
    assigned_unit                \* task id -> <<category, index>> of the unit
                                 \* whose mark the binding set (lines 177-184)

vars == <<resources, websites_info, efforts, tasks, resource_free_on_day,
          completed_tasks, active_websites, website_start_times,
          website_end_times, website_actual_start_logged, current_day,
          log_messages, pc, scan_pos, assigned_unit>>

inputs == <<resources, websites_info, efforts>>

\* lines 59-93
Init ==
    \E r \in ResourceInputs, w \in WebsiteInputs,
       e \in RegularEfforts \cup {LongEfforts} :
        /\ InputOK(r, w, e)
        /\ resources = r
        /\ websites_info = w
        /\ efforts = e
        /\ tasks = BuildTasks(r, w, e)
        /\ resource_free_on_day = [c \in Categories |-> [i \in 1..r[c] |-> 0]]
        /\ completed_tasks = EmptyMap
        /\ active_websites = {}
        /\ website_start_times = EmptyMap
        /\ website_end_times = EmptyMap
        /\ website_actual_start_logged = {}
        /\ current_day = 0
        /\ log_messages = <<>>
        /\ pc = "loop"
        /\ scan_pos = 1
        /\ assigned_unit = EmptyMap

\* ------------------------------------------------------------ activation
\* line 102
CapMut(active) == Cardinality(active) < 3

CapOne(active) == Cardinality(active) < 1

BelowCap(active) == Cardinality(active) < 2

\* line 106
EligibleMut(id, active, end_times) == id \notin active

Eligible(id, active, end_times) ==
    id \notin active /\ id \notin DOMAIN end_times

\* lines 104-109: the first eligible site in ascending id order, or none
EligibleIds(w, active, end_times) ==
    { w[i].id : i \in { j \in 1..Len(w) : Eligible(w[j].id, active, end_times) } }

MaxOf(S) == CHOOSE x \in S : \A y \in S : x >= y

MinOf(S) == CHOOSE x \in S : \A y \in S : x <= y

ActivatedLog(day, id) == [kind |-> "activated", site |-> id, stamp |-> Fmt1(day)]

StartedLog(day, id) == [kind |-> "started", site |-> id, stamp |-> Fmt1(day)]

CompleteLog(day, id) == [kind |-> "complete", site |-> id, stamp |-> Fmt1(day)]

TimeoutLog == [kind |-> "timeout"]

\* line 97
NoNotice(log) == log

WithTimeoutNotice(log) == Append(log, TimeoutLog)

\* line 95: the loop condition fails, the function returns (line 198)
Return ==
    /\ pc = "loop"
    /\ ~ (Cardinality(DOMAIN completed_tasks) < Len(tasks))
    /\ pc' = "returned"
    /\ UNCHANGED <<inputs, tasks, resource_free_on_day, completed_tasks,
                   active_websites, website_start_times, website_end_times,
                   website_actual_start_logged, current_day, log_messages,
                   scan_pos, assigned_unit>>

\* lines 96-98: the safety break
Timeout ==
    /\ pc = "loop"
    /\ Cardinality(DOMAIN completed_tasks) < Len(tasks)
    /\ current_day > SafetyBound
    /\ log_messages' = WithTimeoutNotice(log_messages)
    /\ pc' = "returned"
    /\ UNCHANGED <<inputs, tasks, resource_free_on_day, completed_tasks,
                   active_websites, website_start_times, website_end_times,
                   website_actual_start_logged, current_day, scan_pos,
                   assigned_unit>>

\* lines 100-112: the activation step and the sort of the task list
Activate ==
    /\ pc = "loop"
    /\ Cardinality(DOMAIN completed_tasks) < Len(tasks)
    /\ ~ (current_day > SafetyBound)
    /\ LET cand == EligibleIds(websites_info, active_websites, website_end_times)
       IN  IF BelowCap(active_websites) /\ cand # {}
           THEN /\ active_websites' = active_websites \cup {MinOf(cand)}
                /\ log_messages' =
                       Append(log_messages, ActivatedLog(current_day, MinOf(cand)))
           ELSE UNCHANGED <<active_websites, log_messages>>
    /\ tasks' = SortTasks(<<>>, tasks)
    /\ scan_pos' = 1
    /\ pc' = "scan"
    /\ UNCHANGED <<inputs, resource_free_on_day, completed_tasks,
                   website_start_times, website_end_times,
                   website_actual_start_logged, current_day, assigned_unit>>

\* --------------------------------------------------------------- binding
\* completed_tasks.get(dep, 0)
GetOr0(m, k) == IF k \in DOMAIN m THEN m[k] ELSE 0

\* lines 118-124
DepsMet(task, completed) ==
    \/ task.depends_on.kind = "none"
    \/ task.depends_on.kind = "str" /\ task.depends_on.ids[1] \in DOMAIN completed
    \/ /\ task.depends_on.kind = "list"
       /\ \A k \in 1..Len(task.depends_on.ids) :
              task.depends_on.ids[k] \in DOMAIN completed

RECURSIVE MaxOver(_, _)
MaxOver(ids, completed) ==
    IF Len(ids) = 1 THEN GetOr0(completed, ids[1])
    ELSE Max2(GetOr0(completed, Head(ids)), MaxOver(Tail(ids), completed))

\* lines 130-134
DepEndDayMut(task, completed) == 0

DepEndDay(task, completed) ==
    IF task.depends_on.kind = "str" /\ task.depends_on.ids[1] \in DOMAIN completed
    THEN completed[task.depends_on.ids[1]]
    ELSE IF task.depends_on.kind = "list" /\ DepsMet(task, completed)
    THEN (IF task.depends_on.ids # <<>>
          THEN MaxOver(task.depends_on.ids, completed) ELSE 0)
    ELSE 0

\* lines 129, 138-141
ResourcePool(task, free) ==
    IF task.type = "Go-Live" THEN free["WordPress"] \o free["UI"]
    ELSE free[task.type]

\* line 144
PossibleStartMut(free_day, dep_end_day) == dep_end_day

PossibleStart(free_day, dep_end_day) == Max2(free_day, dep_end_day)

\* the scan with <= in place of < at line 145
RECURSIVE ScanPoolLast(_, _, _, _)
ScanPoolLast(pool, i, dep_end_day, best) ==
    IF i > Len(pool) THEN best
    ELSE LET possible_start_time == PossibleStart(pool[i], dep_end_day)
         IN  ScanPoolLast(pool, i + 1, dep_end_day,
                          IF possible_start_time <= best.earliest_start_time
                          THEN [earliest_start_time |-> possible_start_time,
                                resource_to_assign |-> i - 1]
                          ELSE best)

\* lines 136-137, 143-147: resource_to_assign is the 0-based index of
\* enumerate(), -1 when the pool is empty
RECURSIVE ScanPool(_, _, _, _)
ScanPool(pool, i, dep_end_day, best) ==
    IF i > Len(pool) THEN best
    ELSE LET possible_start_time == PossibleStart(pool[i], dep_end_day)
         IN  ScanPool(pool, i + 1, dep_end_day,
                      IF possible_start_time < best.earliest_start_time
                      THEN [earliest_start_time |-> possible_start_time,
                            resource_to_assign |-> i - 1]
                      ELSE best)

Choice(task, free, completed) ==
    ScanPool(ResourcePool(task, free), 1, DepEndDay(task, completed),
             [earliest_start_time |-> Inf, resource_to_assign |-> -1])

\* lines 115-127 and 149: the task is bound in this iteration of the loop
CanBind(task, active, free, completed, day) ==
    /\ task.status = "pending"
    /\ task.website_id \in active
    /\ DepsMet(task, completed)
    /\ Choice(task, free, completed).resource_to_assign # -1
    /\ Choice(task, free, completed).earliest_start_time <= day

\* the first position from pos on whose iteration binds, 0 when there is none
\* (every other iteration ends in a continue or a failed test of line 149
\* and changes nothing)
NextBind(pos) ==
    LET S == { i \in pos..Len(tasks) :
                 CanBind(tasks[i], active_websites, resource_free_on_day,
                         completed_tasks, current_day) }
    IN  IF S = {} THEN 0 ELSE MinOf(S)

\* lines 177-184: the unit whose mark is set, as <<category, 1-based index>>
UnitOf(task, free, resource_to_assign) ==
    IF task.type = "Go-Live"
    THEN IF resource_to_assign < Len(free["WordPress"])
         THEN <<"WordPress", resource_to_assign + 1>>
         ELSE <<"UI", resource_to_assign - Len(free["WordPress"]) + 1>>
    ELSE <<task.type, resource_to_assign + 1>>

\* lines 150-152
BoundTask(task, earliest_start_time) ==
    [task EXCEPT !.status = "inprogress",
                 !.start_day = earliest_start_time,
                 !.end_day = Add(earliest_start_time, task.effort)]

\* lines 114-184: one iteration of the binding loop that binds a task
BindNext ==
    /\ pc = "scan"
    /\ NextBind(scan_pos) # 0
    /\ LET i == NextBind(scan_pos)
           ch == Choice(tasks[i], resource_free_on_day, completed_tasks)
           bound == BoundTask(tasks[i], ch.earliest_start_time)
           unit == UnitOf(tasks[i], resource_free_on_day, ch.resource_to_assign)
       IN  /\ tasks' = [tasks EXCEPT ![i] = bound]
           /\ IF bound.website_id \notin website_actual_start_logged
              THEN /\ website_actual_start_logged' =
                          website_actual_start_logged \cup {bound.website_id}
                   /\ website_start_times' =
                          Put(website_start_times, bound.website_id, bound.start_day)
                   /\ log_messages' =
                          Append(log_messages,
                                 StartedLog(bound.start_day, bound.website_id))
              ELSE UNCHANGED <<website_actual_start_logged, website_start_times,
                               log_messages>>
           /\ resource_free_on_day' =
                  [resource_free_on_day EXCEPT ![unit[1]][unit[2]] = bound.end_day]
           /\ assigned_unit' = Put(assigned_unit, bound.id, unit)
           /\ scan_pos' = i + 1
    /\ pc' = "scan"
    /\ UNCHANGED <<inputs, completed_tasks, active_websites, website_end_times,
                   current_day>>

\* ------------------------------------------------------------ retirement
\* line 189
ElapsedAnyStatus(task, day) == task.status # "complete" /\ day >= task.end_day

Elapsed(task, day) == task.status = "inprogress" /\ day >= task.end_day

\* lines 188-196: the retirement loop from position i on; st carries the
\* values the loop updates.  active_websites.remove raises KeyError when the
\* site is not in the set, which ends the run (crashed).
RECURSIVE RetireFrom(_, _, _)
RetireFrom(i, day, st) ==
    IF i > Len(st.tasks) \/ st.crashed THEN st
    ELSE LET task == st.tasks[i]
         IN  IF ~ Elapsed(task, day) THEN RetireFrom(i + 1, day, st)
             ELSE LET st1 == [st EXCEPT
                                !.tasks[i].status = "complete",
                                !.completed = Put(st.completed, task.id, task.end_day)]
                  IN  IF task.type # "Go-Live" THEN RetireFrom(i + 1, day, st1)
                      ELSE LET site_id == task.website_id
                               st2 == [st1 EXCEPT
                                         !.end_times =
                                             Put(st1.end_times, site_id, task.end_day)]
                           IN  IF site_id \notin st2.active
                               THEN [st2 EXCEPT !.crashed = TRUE]
                               ELSE RetireFrom(i + 1, day,
                                      [st2 EXCEPT
                                         !.active = st2.active \ {site_id},
                                         !.log = Append(st2.log,
                                                   CompleteLog(task.end_day, site_id))])

\* lines 186-196: the binding loop is over; clock advance and retirement scan
AdvanceAndRetire ==
    /\ pc = "scan"
    /\ NextBind(scan_pos) = 0
    /\ current_day' = current_day + time_step
    /\ LET st == RetireFrom(1, current_day + time_step,
                            [tasks |-> tasks, completed |-> completed_tasks,
                             end_times |-> website_end_times,
                             active |-> active_websites, log |-> log_messages,
                             crashed |-> FALSE])
       IN  /\ tasks' = st.tasks
           /\ completed_tasks' = st.completed
           /\ website_end_times' = st.end_times
           /\ active_websites' = st.active
           /\ log_messages' = st.log
           /\ pc' = IF st.crashed THEN "crashed" ELSE "loop"
    /\ scan_pos' = 1
    /\ UNCHANGED <<inputs, resource_free_on_day, website_start_times,
                   website_actual_start_logged, assigned_unit>>

Next == Return \/ Timeout \/ Activate \/ BindNext \/ AdvanceAndRetire

Spec == Init /\ [][Next]_vars

\* ================================================================ claims
SiteIds == { websites_info[i].id : i \in 1..Len(websites_info) }

Bound(t) == t.status \in {"inprogress", "complete"}

TaskAt(id) == tasks[CHOOSE i \in 1..Len(tasks) : tasks[i].id = id]

GoLiveOf(s) ==
    tasks[CHOOSE i \in 1..Len(tasks) :
            tasks[i].website_id = s /\ tasks[i].type = "Go-Live"]

AllComplete == \A i \in 1..Len(tasks) : tasks[i].status = "complete"

HasNotice == \E k \in 1..Len(log_messages) : log_messages[k].kind = "timeout"

AllCountsPositive == \A c \in Categories : resources[c] > 0

AllCountsOne == \A c \in Categories : resources[c] = 1

\* C1: in every reachable state (after the activation step, during and
\* after the binding scan, after the retirement scan) the active set holds
\* at most 2 project ids.
C1_ConcurrencyCap == Cardinality(active_websites) <= 2

\* two sites are active and a third one is waiting, after the activation step
C1_Witness ==
    /\ pc = "scan"
    /\ Cardinality(active_websites) = 2
    /\ EligibleIds(websites_info, active_websites, website_end_times) # {}

\* C2: every bound task with a single dependency starts no earlier than the
\* end_day of that dependency, every bound Go-Live task starts no earlier
\* than the end_day of every UI task of its project, and the dependencies of
\* a bound task are all complete.
C2_Precedence ==
    \A i \in 1..Len(tasks) :
        Bound(tasks[i]) =>
            /\ tasks[i].depends_on.kind = "str" =>
                   LET dep == TaskAt(tasks[i].depends_on.ids[1])
                   IN  dep.status = "complete" /\ tasks[i].start_day >= dep.end_day
            /\ tasks[i].type = "Go-Live" =>
                   \A j \in 1..Len(tasks) :
                       (tasks[j].website_id = tasks[i].website_id
                            /\ tasks[j].type = "UI") =>
                           /\ tasks[j].status = "complete"
                           /\ tasks[i].start_day >= tasks[j].end_day

\* a Go-Live task of a two-page site is bound, and so is a dependent task that
\* had to wait for its dependency although its unit was free earlier
C2_Witness ==
    /\ \E i \in 1..Len(tasks) :
           /\ tasks[i].type = "Go-Live" /\ Bound(tasks[i])
           /\ Len(tasks[i].depends_on.ids) = 2
    /\ \E i \in 1..Len(tasks) :
           /\ Bound(tasks[i]) /\ tasks[i].depends_on.kind = "str"
           /\ tasks[i].start_day = TaskAt(tasks[i].depends_on.ids[1]).end_day
           /\ tasks[i].start_day > 0

\* C3: the [start_day, end_day) intervals of the tasks assigned to one
\* resource unit (a Go-Live task counts for the WordPress or UI unit whose
\* mark it set) never overlap.
C3_Exclusive ==
    \A i \in 1..Len(tasks) :
        Bound(tasks[i]) =>
            \A j \in (i + 1)..Len(tasks) :
                (/\ Bound(tasks[j])
                 /\ assigned_unit[tasks[i].id] = assigned_unit[tasks[j].id]) =>
                    \/ tasks[i].end_day <= tasks[j].start_day
                    \/ tasks[j].end_day <= tasks[i].start_day

\* one unit has served a Go-Live task and a page task of another site
C3_Witness ==
    \E i, j \in 1..Len(tasks) :
        /\ tasks[i].type = "Go-Live" /\ tasks[j].type # "Go-Live"
        /\ tasks[i].website_id # tasks[j].website_id
        /\ tasks[i].id \in DOMAIN assigned_unit
        /\ tasks[j].id \in DOMAIN assigned_unit
        /\ assigned_unit[tasks[i].id] = assigned_unit[tasks[j].id]

MinOf2(a, b) == IF a <= b THEN a ELSE b

\* C4: with 3 projects and every resource count 1, the recorded start time
\* of the third project is at least the smaller of the finalize finish times
\* of the first and the second project.
C4_ThirdStartsAfterRetirement ==
    (/\ pc = "returned" /\ AllComplete
     /\ Len(websites_info) = 3 /\ AllCountsOne) =>
        website_start_times[2] >=
            MinOf2(website_end_times[0], website_end_times[1])

Stamped(k) == log_messages[k].kind # "timeout"

\* C5: the timestamps of successive log entries never decrease.
C5_Chronological ==
    \A k, l \in 1..Len(log_messages) :
        (k < l /\ Stamped(k) /\ Stamped(l)) =>
            log_messages[k].stamp <= log_messages[l].stamp

\* C6: when all four resource counts are positive the run ends with every
\* task complete and without the timeout notice.
C6_Completion ==
    (pc = "returned" /\ AllCountsPositive) => (AllComplete /\ ~ HasNotice)

\* C7: the run ends in exactly one of two ways: every task is complete and
\* the log has no timeout notice, or the clock is past the safety bound, some
\* task is not complete and the notice is the last entry and the only one;
\* no notice is logged before the end and the run does not end in an error.
C7_TwoOutcomes ==
    /\ pc # "crashed"
    /\ pc # "returned" => ~ HasNotice
    /\ pc = "returned" =>
          \/ AllComplete /\ ~ HasNotice
          \/ /\ ~ AllComplete
             /\ current_day > SafetyBound
             /\ Len(log_messages) >= 1
             /\ log_messages[Len(log_messages)].kind = "timeout"
             /\ \A k \in 1..(Len(log_messages) - 1) : Stamped(k)

\* the run has ended through the safety bound
C7_Witness ==
    /\ pc = "returned" /\ ~ AllComplete /\ HasNotice
    /\ current_day > SafetyBound

EmptyFinalizePool == resources["WordPress"] = 0 /\ resources["UI"] = 0

TimedOut ==
    /\ pc = "returned"
    /\ current_day > SafetyBound
    /\ log_messages[Len(log_messages)].kind = "timeout"

\* C8: with a one-page project and no WordPress and no UI unit, the Go-Live
\* task has infinite effort and stays pending, no task is assigned to a unit
\* that does not exist, the project is never retired, and the run ends
\* through the safety bound and not through an error: it never crashes, the
\* clock stays within one tick of the safety bound, and when the run returns
\* the clock is past the bound and the timeout notice is the last log entry.
C8_EmptyPoolTimesOut ==
    EmptyFinalizePool =>
        /\ \A s \in SiteIds :
               GoLiveOf(s).effort = Inf /\ GoLiveOf(s).status = "pending"
        /\ \A id \in DOMAIN assigned_unit :
               assigned_unit[id][2] \in 1..resources[assigned_unit[id][1]]
        /\ \A i \in 1..Len(tasks) :
               Bound(tasks[i]) => tasks[i].type \in {"Design", "Content"}
        /\ website_end_times = EmptyMap
        /\ pc # "crashed"
        /\ current_day <= SafetyBound + time_step
        /\ pc = "returned" => TimedOut

\* the run with the empty pool has ended through the safety bound, Design and
\* Content done and the project still active
C8_Witness ==
    /\ EmptyFinalizePool /\ TimedOut
    /\ websites_info[1].pages = 1
    /\ active_websites = {0}
    /\ \E i \in 1..Len(tasks) : tasks[i].type = "Content" /\ tasks[i].status = "complete"

\* C9: no step lowers the free-at mark of a resource unit, and a binding
\* sets the mark of the chosen unit to the end_day of the task it binds.
C9_MonotonicMarks ==
    [][/\ \A c \in Categories : \A i \in 1..resources[c] :
              resource_free_on_day'[c][i] >= resource_free_on_day[c][i]
       /\ \A id \in (DOMAIN assigned_unit') \ (DOMAIN assigned_unit) :
              LET u == assigned_unit'[id]
                  t == tasks'[CHOOSE i \in 1..Len(tasks) : tasks[i].id = id]
              IN  /\ resource_free_on_day'[u[1]][u[2]] = t.end_day
                  /\ t.end_day >= resource_free_on_day[u[1]][u[2]]]_vars

\* a unit that was committed twice: its mark is the later end_day
C9_Witness ==
    \E i, j \in 1..Len(tasks) :
        /\ tasks[i].id \in DOMAIN assigned_unit
        /\ tasks[j].id \in DOMAIN assigned_unit
        /\ assigned_unit[tasks[i].id] = assigned_unit[tasks[j].id]
        /\ tasks[i].end_day < tasks[j].end_day
        /\ LET u == assigned_unit[tasks[j].id]
           IN  resource_free_on_day[u[1]][u[2]] = tasks[j].end_day

\* C10: a project id leaves the active set only in the step that retires its
\* Go-Live task and records its end time, a project with a recorded end time
\* is not in the active set and is never added to it, and the removal is only
\* made for a member of the active set (it never raises).
C10_RetiredOnce ==
    [][/\ pc' # "crashed"
       /\ \A s \in SiteIds :
            /\ (s \in active_websites /\ s \notin active_websites') =>
                   /\ GoLiveOf(s).status = "inprogress"
                   /\ s \notin DOMAIN website_end_times
                   /\ s \in DOMAIN website_end_times'
            /\ (s \in DOMAIN website_end_times' /\ s \notin DOMAIN website_end_times) =>
                   s \in active_websites /\ s \notin active_websites'
            /\ s \in DOMAIN website_end_times =>
                   s \notin active_websites /\ s \notin active_websites']_vars

\* a project is retired, the cap has room and another project is still
\* unfinished, after the activation step
C10_Witness ==
    /\ pc = "scan"
    /\ DOMAIN website_end_times # {}
    /\ Cardinality(active_websites) = 1
    /\ active_websites \cap DOMAIN website_end_times = {}

\* ---------------------------------------------------------------- C11-C20
\* the scenario of C11: one site of one page, one unit per category, the
\* default efforts
DefaultScenario ==
    /\ Len(websites_info) = 1 /\ websites_info[1].pages = 1
    /\ AllCountsOne
    /\ efforts = DefaultEfforts

EndOf(id) == TaskAt(id).end_day

\* C11: in the default scenario the run completes with the Design task
\* ending at day 1.5, Content at 3.0, WordPress at 4.0, UI at 6.0, and the
\* Go-Live task starting at 6.0 and ending at 11.0, the finish time of the
\* project (days are 60 units).
C11_DefaultSchedule ==
    (DefaultScenario /\ pc = "returned") =>
        /\ AllComplete /\ ~ HasNotice
        /\ EndOf(<<0, 1, "Design">>) = 90
        /\ EndOf(<<0, 1, "Content">>) = 180
        /\ EndOf(<<0, 1, "WP">>) = 240
        /\ EndOf(<<0, 1, "UI">>) = 360
        /\ GoLiveOf(0).start_day = 360
        /\ GoLiveOf(0).end_day = 660
        /\ website_end_times = (0 :> 660)

\* the run of the default scenario has returned
C11_Witness == DefaultScenario /\ pc = "returned" /\ 0 \in DOMAIN website_end_times

\* the ids that are neither active nor retired, stated on the state itself
Waiting == { s \in SiteIds : s \notin active_websites /\ s \notin DOMAIN website_end_times }

\* C13: a step adds at most one project to the active set, only from the
\* loop head (once per tick), only when the set has fewer than 2 members, and
\* the project added is the lowest id that is neither active nor retired.
C13_OneActivation ==
    [][LET new == active_websites' \ active_websites
       IN  /\ Cardinality(new) <= 1
           /\ new # {} =>
                 /\ pc = "loop" /\ pc' = "scan"
                 /\ Cardinality(active_websites) < 2
                 /\ \A s \in new : s \in Waiting /\ \A o \in Waiting : s <= o]_vars

\* the third project has just been activated, after a retirement
C13_Witness ==
    /\ pc = "scan" /\ scan_pos = 1
    /\ log_messages[Len(log_messages)].kind = "activated"
    /\ log_messages[Len(log_messages)].site = 2
    /\ log_messages[Len(log_messages)].stamp = Fmt1(current_day)
    /\ DOMAIN website_end_times # {}

\* C14: after the activation step of every tick the active set has 2
\* members or no project is waiting.
C14_FillsDeficit ==
    pc = "scan" => (Cardinality(active_websites) = 2 \/ Waiting = {})

\* C14 as amended: the activation step adds exactly one project when the
\* active set has fewer than 2 members and a project is waiting, and none
\* otherwise; a deficit of 2 is filled over two ticks.
C14_OnePerTick ==
    [][(pc = "loop" /\ pc' = "scan") =>
          IF Cardinality(active_websites) < 2 /\ Waiting # {}
          THEN /\ Cardinality(active_websites') = Cardinality(active_websites) + 1
               /\ active_websites \subseteq active_websites'
          ELSE active_websites' = active_websites]_vars

\* after the activation step of the first tick one project is active and
\* another one is still waiting
C14_Witness ==
    /\ pc = "scan" /\ current_day = 0
    /\ Cardinality(active_websites) = 1
    /\ Waiting # {}

\* the end_day of the latest dependency of the task, 0 without dependency
DepReady(t) ==
    IF t.depends_on.ids = <<>> THEN 0
    ELSE LET E == { EndOf(t.depends_on.ids[k]) : k \in 1..Len(t.depends_on.ids) }
         IN  CHOOSE d \in E : \A e \in E : e <= d

\* the pool of the task: its category's marks, for Go-Live the WordPress
\* marks followed by the UI marks
PoolOf(t) ==
    IF t.type = "Go-Live"
    THEN resource_free_on_day["WordPress"] \o resource_free_on_day["UI"]
    ELSE resource_free_on_day[t.type]

\* the position in the pool of the unit <<category, index>>
PoolIndex(t, u) ==
    IF t.type = "Go-Live" /\ u[1] = "UI" THEN resources["WordPress"] + u[2] ELSE u[2]

\* C15: a binding takes the unit of the task's pool whose
\* max(free mark, dep_ready_time) is smallest, the lowest position of the
\* concatenated pool on ties, starts the task at that value and ends it
\* effort later.
C15_EarliestUnit ==
    [][\A i \in 1..Len(tasks) :
          (tasks[i].status = "pending" /\ tasks'[i].status = "inprogress") =>
              LET t == tasks[i]
                  u == assigned_unit'[t.id]
                  pool == PoolOf(t)
                  dep == DepReady(t)
                  chosen == PoolIndex(t, u)
                  v == Max2(pool[chosen], dep)
              IN  /\ tasks'[i].id = t.id
                  /\ u[1] \in (IF t.type = "Go-Live" THEN {"WordPress", "UI"}
                                                      ELSE {t.type})
                  /\ chosen \in 1..Len(pool)
                  /\ \A k \in 1..Len(pool) :
                        \/ v < Max2(pool[k], dep)
                        \/ v = Max2(pool[k], dep) /\ chosen <= k
                  /\ tasks'[i].start_day = v
                  /\ tasks'[i].end_day = v + t.effort]_vars

\* a Go-Live task runs on a WordPress unit although a UI unit was free as
\* early, and some task runs on the second unit of its pool
C15_Witness ==
    /\ \E i \in 1..Len(tasks) :
          /\ tasks[i].type = "Go-Live" /\ tasks[i].status = "inprogress"
          /\ assigned_unit[tasks[i].id][1] = "WordPress"
          /\ \E k \in 1..resources["UI"] :
                 resource_free_on_day["UI"][k] <= tasks[i].start_day
    /\ \E id \in DOMAIN assigned_unit : assigned_unit[id][2] = 2

\* priority order: ascending project id, then ascending page, Go-Live last
Earlier(a, b) ==
    \/ a.website_id < b.website_id
    \/ /\ a.website_id = b.website_id
       /\ \/ a.type # "Go-Live" /\ b.type = "Go-Live"
          \/ a.type # "Go-Live" /\ b.type # "Go-Live" /\ a.page < b.page

\* pending, of an active project, every dependency complete
Ready(t) ==
    /\ t.status = "pending"
    /\ t.website_id \in active_websites
    /\ \A k \in 1..Len(t.depends_on.ids) :
           TaskAt(t.depends_on.ids[k]).status = "complete"

\* the categories the task draws its unit from
DrawsOn(t) == IF t.type = "Go-Live" THEN {"WordPress", "UI"} ELSE {t.type}

\* C16: when a task is bound, no ready task drawing on one of its categories
\* that is earlier in priority order is left pending (the scan has passed
\* it): of two ready tasks that share a category and of which one only is
\* bound in a tick, the bound one is the earlier.
C16_PriorityOrder ==
    [][\A i \in 1..Len(tasks) :
          (tasks[i].status = "pending" /\ tasks'[i].status = "inprogress") =>
              \A j \in 1..Len(tasks) :
                  ~ (/\ DrawsOn(tasks[j]) \cap DrawsOn(tasks[i]) # {}
                     /\ Earlier(tasks[j], tasks[i])
                     /\ tasks'[j].status = "pending"
                     /\ Ready(tasks[j]))]_vars

\* two ready tasks of one category met in this tick: the earlier one was
\* bound now, the later one was passed over and stays pending
C16_Witness ==
    /\ pc = "scan"
    /\ \E i, j \in 1..Len(tasks) :
          /\ tasks[i].type = tasks[j].type
          /\ Earlier(tasks[i], tasks[j])
          /\ tasks[i].status = "inprogress" /\ tasks[i].start_day = current_day
          /\ Ready(tasks[j])
          /\ j < scan_pos

\* C17: no resource unit is the assigned unit of two tasks in status
\* in-progress.
C17_OneInProgressPerUnit ==
    \A i \in 1..Len(tasks) :
        tasks[i].status = "inprogress" =>
            \A j \in (i + 1)..Len(tasks) :
                tasks[j].status = "inprogress" =>
                    assigned_unit[tasks[i].id] # assigned_unit[tasks[j].id]

\* the task of the next state with the id of tasks[i]
Same(i) ==
    IF tasks'[i].id = tasks[i].id THEN tasks'[i]
    ELSE tasks'[CHOOSE j \in 1..Len(tasks) : tasks'[j].id = tasks[i].id]

\* C18: the status of a task only moves pending -> in-progress -> complete,
\* the start_day and end_day of a bound task never change, and the
\* completed-tasks map holds exactly the complete tasks, each with its
\* end_day.
C18_Irrevocable ==
    [][/\ \A i \in 1..Len(tasks) :
             /\ \/ Same(i).status = tasks[i].status
                \/ tasks[i].status = "pending" /\ Same(i).status = "inprogress"
                \/ tasks[i].status = "inprogress" /\ Same(i).status = "complete"
             /\ Bound(tasks[i]) =>
                    /\ Same(i).start_day = tasks[i].start_day
                    /\ Same(i).end_day = tasks[i].end_day
       /\ \A i \in 1..Len(tasks) :
             IF tasks'[i].status = "complete"
             THEN /\ tasks'[i].id \in DOMAIN completed_tasks'
                  /\ completed_tasks'[tasks'[i].id] = tasks'[i].end_day
             ELSE tasks'[i].id \notin DOMAIN completed_tasks']_vars

\* a task completed at least two ticks ago is still there with its times
C18_Witness ==
    \E i \in 1..Len(tasks) :
        /\ tasks[i].status = "complete"
        /\ completed_tasks[tasks[i].id] = tasks[i].end_day
        /\ current_day >= tasks[i].end_day + 2 * time_step
        /\ \E j \in 1..Len(tasks) : tasks[j].status = "pending"

\* the clock value of the "activated" log entry of site s (the clock is a
\* whole number of ticks, so the one-decimal stamp is exact)
ActivatedAt(s) ==
    LET k == CHOOSE k \in 1..Len(log_messages) :
                 log_messages[k].kind = "activated" /\ log_messages[k].site = s
    IN  6 * log_messages[k].stamp

\* C19: no bound task starts before the clock value of the tick in which
\* its project was activated.
C19_StartsAfterActivation ==
    \A i \in 1..Len(tasks) :
        Bound(tasks[i]) => tasks[i].start_day >= ActivatedAt(tasks[i].website_id)

\* C20: website_start_times[p] is written when the first task of p is
\* bound and never again, it is the smallest start_day of the bound tasks
\* of p, and website_end_times[p] is the end_day of the Go-Live task of p and
\* at least the end_day of every task of p.
C20_TrueExtremes ==
    [][/\ \A s \in DOMAIN website_start_times :
             /\ s \in DOMAIN website_start_times'
             /\ website_start_times'[s] = website_start_times[s]
       /\ \A s \in SiteIds :
             LET B == { i \in 1..Len(tasks) :
                           tasks'[i].website_id = s /\ Bound(tasks'[i]) }
             IN  /\ (B # {}) = (s \in DOMAIN website_start_times')
                 /\ B # {} =>
                       /\ \A i \in B : website_start_times'[s] <= tasks'[i].start_day
                       /\ \E i \in B : website_start_times'[s] = tasks'[i].start_day
       /\ \A s \in DOMAIN website_end_times' :
             \A i \in 1..Len(tasks) :
                 tasks'[i].website_id = s =>
                     /\ Bound(tasks'[i])
                     /\ website_end_times'[s] >= tasks'[i].end_day
                     /\ tasks'[i].type = "Go-Live" =>
                            website_end_times'[s] = tasks'[i].end_day]_vars

\* the third project is done; its recorded start is later than day 0 and
\* earlier than the start of its other tasks
C20_Witness ==
    /\ 2 \in DOMAIN website_end_times
    /\ website_start_times[2] > 0
    /\ \E i \in 1..Len(tasks) :
          /\ tasks[i].website_id = 2 /\ tasks[i].type = "Design" /\ tasks[i].page = 2
          /\ tasks[i].start_day > website_start_times[2]

====
